---------------------------- MODULE Spec2Model ----------------------------
(***************************************************************************)
(* The integrations command of zeroclaw (src/integrations/mod.rs): the     *)
(* filter normalizer (parse_category_filter, parse_status_filter) and the  *)
(* three queries list_integrations, search_integrations and                *)
(* show_integration_info over the catalog of registry::all_integrations(). *)
(*                                                                         *)
(* A Rust string is modelled as the sequence of its characters, each a     *)
(* one-character TLA+ string; the alphabet is printable ASCII, on which    *)
(* str::to_lowercase is the ASCII case mapping and Ord for str is the      *)
(* lexicographic order of the byte codes.                                  *)
(***************************************************************************)
EXTENDS Naturals, Sequences, FiniteSets

VARIABLES
    catalog,         \* the entries registry::all_integrations() returns
    config,          \* the Config snapshot: the integrations it configures
    pc,              \* position in the command being handled
    command,         \* the IntegrationCommands value being handled
    entries,         \* local `entries` of the running query
    category_match,  \* local `category_match`: Option<IntegrationCategory>
    status_match,    \* local `status_match`: Option<IntegrationStatus>
    categories,      \* local BTreeMap of list_integrations
    results,         \* local `results` of search_integrations
    output,          \* what the query has printed
    result,          \* the Result<()> the command returned
    trace,           \* the calls the running command has made, in order
    input,           \* the filter string handed to the normalizer
    edits,           \* how many times `input` was respelled
    parsed           \* what the two normalizers returned for `input`

vars == <<catalog, config, pc, command, entries, category_match, status_match,
          categories, results, output, result, trace, input, edits, parsed>>

queryVars == <<pc, command, entries, category_match, status_match,
               categories, results, output, result, trace>>

parseVars == <<input, edits, parsed>>

(***************************************************************************)
(* Bounds.                                                                 *)
(***************************************************************************)
\* the longest catalog all_integrations() is taken to return
MaxCatalog == 3

\* how many respellings (case changes, separators, cuts) an input undergoes
MaxEdits == 2

(***************************************************************************)
(* Characters and strings.                                                 *)
(***************************************************************************)
\* printable ASCII in code order: Ascii[i] is the character of code i + 31
\* (QUOTE, BACKSLASH and BACKTICK stand for the characters of codes 34, 92, 96)
Ascii == 
    << " ", "!", "QUOTE", "#", "$", "%", "&", "'", "(", ")", "*", "+", ",", "-", ".", "/",
       "0", "1", "2", "3", "4", "5", "6", "7", "8", "9", ":", ";", "<", "=", ">", "?",
       "@", "A", "B", "C", "D", "E", "F", "G", "H", "I", "J", "K", "L", "M", "N", "O",
       "P", "Q", "R", "S", "T", "U", "V", "W", "X", "Y", "Z", "[", "BACKSLASH", "]", "^", "_",
       "BACKTICK", "a", "b", "c", "d", "e", "f", "g", "h", "i", "j", "k", "l", "m", "n", "o",
       "p", "q", "r", "s", "t", "u", "v", "w", "x", "y", "z", "{", "|", "}", "~" >>

Chars == {Ascii[i] : i \in 1..Len(Ascii)}

\* the byte of each character
ByteOf == [c \in Chars |-> 31 + (CHOOSE i \in 1..Len(Ascii) : Ascii[i] = c)]

Byte(c) == ByteOf[c]

Chr(b) == Ascii[b - 31]

\* char::to_lowercase on ASCII, tabulated
LowerOf == [c \in Chars |-> IF ByteOf[c] \in 65..90 THEN Chr(ByteOf[c] + 32) ELSE c]

LowerChar(c) == LowerOf[c]

\* char::to_uppercase on ASCII, tabulated
UpperOf == [c \in Chars |-> IF ByteOf[c] \in 97..122 THEN Chr(ByteOf[c] - 32) ELSE c]

UpperChar(c) == UpperOf[c]

\* str::to_lowercase
to_lowercase(s) == [i \in 1..Len(s) |-> LowerChar(s[i])]

\* str::replace(ch, ""): every occurrence of ch removed
replace(s, ch) == SelectSeq(s, LAMBDA c : c # ch)

\* str::contains(needle): needle occurs in hay as a contiguous run
contains(hay, needle) ==
    \E i \in 1..(Len(hay) + 1) :
        /\ i + Len(needle) - 1 <= Len(hay)
        /\ \A j \in 1..Len(needle) : hay[i + j - 1] = needle[j]

\* Ord for str: lexicographic comparison of the bytes, a < b
RECURSIVE str_lt(_, _)
str_lt(a, b) ==
    IF b = <<>> THEN FALSE
    ELSE IF a = <<>> THEN TRUE
    ELSE IF Byte(Head(a)) # Byte(Head(b)) THEN Byte(Head(a)) < Byte(Head(b))
    ELSE str_lt(Tail(a), Tail(b))

(***************************************************************************)
(* IntegrationStatus, IntegrationCategory.                                 *)
(***************************************************************************)
IntegrationStatus == {"Available", "Active", "ComingSoon"}

\* the variants in declaration order, which #[derive(Ord)] makes the order
CategoryOrder == <<"Chat", "AiModel", "Productivity", "MusicAudio", "SmartHome",
                   "ToolsAutomation", "MediaCreative", "Social", "Platform">>

IntegrationCategory == {CategoryOrder[i] : i \in 1..Len(CategoryOrder)}

\* the position of a category in the derived order
CategoryRank(c) == CHOOSE i \in 1..Len(CategoryOrder) : CategoryOrder[i] = c

(***************************************************************************)
(* Option and Result values.                                               *)
(***************************************************************************)
NoneStr == [some |-> FALSE, v |-> <<>>]
SomeStr(s) == [some |-> TRUE, v |-> s]
NoneEnum == [some |-> FALSE, v |-> "None"]
SomeEnum(x) == [some |-> TRUE, v |-> x]

NoError == [msg |-> "", input |-> <<>>, valid |-> <<>>]
Ok(x) == [ok |-> TRUE, value |-> x, err |-> NoError]
Err(m, s, options) ==
    [ok |-> FALSE, value |-> "None", err |-> [msg |-> m, input |-> s, valid |-> options]]
OkUnit == Ok("()")

(***************************************************************************)
(* The filter normalizer.                                                  *)
(***************************************************************************)
\* `valid` of parse_category_filter
valid_categories ==
    << <<"c","h","a","t">>, <<"a","i">>, <<"p","r","o","d","u","c","t","i","v","i","t","y">>, <<"m","u","s","i","c">>, <<"s","m","a","r","t","-","h","o","m","e">>,
       <<"t","o","o","l","s">>, <<"m","e","d","i","a">>, <<"s","o","c","i","a","l">>, <<"p","l","a","t","f","o","r","m","s">> >>

\* the options the message of parse_status_filter lists
valid_statuses == << <<"a","c","t","i","v","e">>, <<"a","v","a","i","l","a","b","l","e">>, <<"c","o","m","i","n","g","-","s","o","o","n">> >>

\* a normalizer that forgets to lowercase
normalize_case_sensitive(s) == replace(replace(s, "-"), "_")

\* a normalizer that removes the underscores only
normalize_keeps_hyphen(s) == replace(to_lowercase(s), "_")

\* `normalized` of both parsers
normalize(s) == replace(replace(to_lowercase(s), "-"), "_")


\* a parser whose error carries the normalized string
category_error_normalized(s) ==
    Err("Unknown category", normalize(s), valid_categories)

category_error(s) == Err("Unknown category", s, valid_categories)

status_error(s) == Err("Unknown status", s, valid_statuses)

parse_category_filter(s) ==
    LET n == normalize(s) IN
    CASE n \in {<<"c","h","a","t">>, <<"c","h","a","t","p","r","o","v","i","d","e","r","s">>, <<"m","e","s","s","a","g","i","n","g">>} -> Ok("Chat")
      [] n \in {<<"a","i">>, <<"a","i","m","o","d","e","l","s">>, <<"a","i","m","o","d","e","l">>, <<"m","o","d","e","l","s">>, <<"l","l","m">>, <<"l","l","m","s">>} -> Ok("AiModel")
      [] n \in {<<"p","r","o","d","u","c","t","i","v","i","t","y">>, <<"p","r","o","d">>} -> Ok("Productivity")
      [] n \in {<<"m","u","s","i","c">>, <<"m","u","s","i","c","a","u","d","i","o">>, <<"a","u","d","i","o">>} -> Ok("MusicAudio")
      [] n \in {<<"s","m","a","r","t","h","o","m","e">>, <<"h","o","m","e">>, <<"i","o","t">>} -> Ok("SmartHome")
      [] n \in {<<"t","o","o","l","s">>, <<"t","o","o","l","s","a","u","t","o","m","a","t","i","o","n">>, <<"a","u","t","o","m","a","t","i","o","n">>} -> Ok("ToolsAutomation")
      [] n \in {<<"m","e","d","i","a">>, <<"m","e","d","i","a","c","r","e","a","t","i","v","e">>, <<"c","r","e","a","t","i","v","e">>} -> Ok("MediaCreative")
      [] n \in {<<"s","o","c","i","a","l">>} -> Ok("Social")
      [] n \in {<<"p","l","a","t","f","o","r","m","s">>, <<"p","l","a","t","f","o","r","m">>} -> Ok("Platform")
      [] OTHER -> category_error(s)

parse_status_filter(s) ==
    LET n == normalize(s) IN
    CASE n \in {<<"a","c","t","i","v","e">>, <<"e","n","a","b","l","e","d">>, <<"o","n">>} -> Ok("Active")
      [] n \in {<<"a","v","a","i","l","a","b","l","e">>, <<"r","e","a","d","y">>, <<"o","f","f">>} -> Ok("Available")
      [] n \in {<<"c","o","m","i","n","g","s","o","o","n">>, <<"s","o","o","n">>, <<"p","l","a","n","n","e","d">>, <<"t","o","d","o">>} -> Ok("ComingSoon")
      [] OTHER -> status_error(s)

(***************************************************************************)
(* The catalog and the configuration (registry.rs and Config).  Their      *)
(* code lies outside mod.rs: the entries below follow the documented data  *)
(* model (unique names, one of the nine categories, a status evaluator     *)
(* that is a pure function of the configuration).                          *)
(***************************************************************************)
TelegramEntry ==
    [name |-> <<"T","e","l","e","g","r","a","m">>, description |-> <<"B","o","t"," ","A","P","I">>,
     category |-> "Chat", status_fn |-> "configured"]

\* the entries a catalog is drawn from; status_fn names the entry's evaluator
EntryPool ==
    { TelegramEntry,
      [name |-> <<"i","M","e","s","s","a","g","e">>, description |-> <<"m","a","c","O","S"," ","b","r","i","d","g","e">>,
       category |-> "Chat", status_fn |-> "available"],
      [name |-> <<"G","i","t","H","u","b">>, description |-> <<"C","o","d","e",","," ","i","s","s","u","e","s">>,
       category |-> "Productivity", status_fn |-> "coming_soon"],
      [name |-> <<"S","p","o","t","i","f","y">>, description |-> <<"M","u","s","i","c"," ","c","o","n","t","r","o","l">>,
       category |-> "MusicAudio", status_fn |-> "coming_soon"],
      [name |-> <<"L","i","n","u","x">>, description |-> <<"N","a","t","i","v","e"," ","s","u","p","p","o","r","t">>,
       category |-> "Platform", status_fn |-> "available"] }

\* a catalog: non-empty, no two names equal once lowercased
Catalogs ==
    { c \in UNION {[1..n -> EntryPool] : n \in 1..MaxCatalog} :
        \A i, j \in DOMAIN c :
            i # j => to_lowercase(c[i].name) # to_lowercase(c[j].name) }

\* a configuration: the names of the integrations it configures
Configs == SUBSET {<<"T","e","l","e","g","r","a","m">>}

\* (entry.status_fn)(config)
status_of(entry, cfg) ==
    CASE entry.status_fn = "configured" ->
            IF entry.name \in cfg THEN "Active" ELSE "Available"
      [] entry.status_fn = "available" -> "Available"
      [] entry.status_fn = "coming_soon" -> "ComingSoon"

\* registry::all_integrations()
all_integrations == catalog

(***************************************************************************)
(* Commands and printed lines.                                             *)
(***************************************************************************)
\* the --category, --status, <query> and <name> arguments tried
CategoryArgs == {NoneStr, SomeStr(<<"c","h","a","t">>), SomeStr(<<"P","r","o","d">>),
                 SomeStr(<<"s","m","a","r","t","-","h","o","m","e">>), SomeStr(<<"b","o","g","u","s">>)}

StatusArgs == {NoneStr, SomeStr(<<"a","c","t","i","v","e">>), SomeStr(<<"r","e","a","d","y">>),
               SomeStr(<<"C","o","m","i","n","g","_","S","o","o","n">>), SomeStr(<<"n","o","p","e">>)}

QueryArgs == {<<>>, <<"t","e","l","e">>, <<"B","O","T">>, <<"m">>, <<"x","y","z">>}

NameArgs == {<<"t","e","l","e","g","r","a","m">>, <<"t","e","l","e">>, <<"I","M","E","S","S","A","G","E">>, <<"G","i","t","H","u","b">>, <<"s","p","o","t","i","f","y">>,
             <<"L","i","n","u","x">>, <<"n","o","t","h","i","n","g">>}

ListCommand(c, s) ==
    [op |-> "list", query |-> <<>>, name |-> <<>>, category |-> c, status |-> s]

SearchCommand(q, c, s) ==
    [op |-> "search", query |-> q, name |-> <<>>, category |-> c, status |-> s]

InfoCommand(n) ==
    [op |-> "info", query |-> <<>>, name |-> n, category |-> NoneStr, status |-> NoneStr]

NoCommand ==
    [op |-> "none", query |-> <<>>, name |-> <<>>, category |-> NoneStr, status |-> NoneStr]

IntegrationCommands ==
    {ListCommand(c, s) : c \in CategoryArgs, s \in StatusArgs}
    \cup {SearchCommand(q[1], q[2], q[3]) : q \in QueryArgs \X CategoryArgs \X StatusArgs}
    \cup {InfoCommand(n) : n \in NameArgs}

NoHint == [kind |-> "none", name |-> <<>>]

\* one println: what it shows
Line(kind, category, name, status, hint) ==
    [kind |-> kind, category |-> category, name |-> name, status |-> status, hint |-> hint]

TitleLine == Line("title", "None", <<>>, "None", NoHint)
EmptyLine == Line("no_matches", "None", <<>>, "None", NoHint)
CategoryLine(c) == Line("category", c, <<>>, "None", NoHint)
EntryLine(e, s) == Line("entry", e.category, e.name, s, NoHint)
InfoLine(e, s, h) == Line("info", e.category, e.name, s, h)

RECURSIVE Flatten(_)
Flatten(ss) == IF ss = <<>> THEN <<>> ELSE Head(ss) \o Flatten(Tail(ss))

(***************************************************************************)
(* The filters of list_integrations and search_integrations.               *)
(***************************************************************************)
\* category_filter.map(|c| parse_category_filter(c)).transpose()
category_parse(cmd) ==
    IF cmd.category.some THEN parse_category_filter(cmd.category.v) ELSE Ok("None")

\* a status stage that drops a filter it cannot parse
status_parse_lenient(cmd) ==
    IF cmd.status.some /\ parse_status_filter(cmd.status.v).ok
    THEN parse_status_filter(cmd.status.v)
    ELSE Ok("None")

\* status_filter.map(|s| parse_status_filter(s)).transpose()
status_parse(cmd) ==
    IF cmd.status.some THEN parse_status_filter(cmd.status.v) ELSE Ok("None")

AsOption(value) == IF value = "None" THEN NoneEnum ELSE SomeEnum(value)

\* the two `?` statements: the Result, the two matches, the parsers called
ParseFilters(cmd) ==
    LET c == category_parse(cmd)
        s == status_parse(cmd)
        ccall == IF cmd.category.some THEN <<"parse_category_filter">> ELSE <<>>
        scall == IF cmd.status.some THEN <<"parse_status_filter">> ELSE <<>>
    IN  IF ~c.ok
        THEN [result |-> c, category |-> NoneEnum, status |-> NoneEnum, calls |-> ccall]
        ELSE IF ~s.ok
        THEN [result |-> s, category |-> NoneEnum, status |-> NoneEnum,
              calls |-> ccall \o scall]
        ELSE [result |-> OkUnit, category |-> AsOption(c.value),
              status |-> AsOption(s.value), calls |-> ccall \o scall]

\* "Apply category filter": the entry passes
category_passes(entry, cat) == cat.some => entry.category = cat.v

\* a status filter that evaluates against the default configuration
status_passes_default_config(entry, st, cfg) == st.some => status_of(entry, {}) = st.v

\* "Apply status filter": the entry passes
status_passes(entry, st, cfg) == st.some => status_of(entry, cfg) = st.v

\* the status_fn calls one entry costs in either filter
filter_calls(entry, cat, st) ==
    IF category_passes(entry, cat) /\ st.some THEN <<"status_fn">> ELSE <<>>

(***************************************************************************)
(* list_integrations.                                                      *)
(***************************************************************************)
\* categories.entry(entry.category).or_default().push(entry)
push_entry(map, entry) ==
    [k \in DOMAIN map \cup {entry.category} |->
        IF k = entry.category
        THEN (IF k \in DOMAIN map THEN Append(map[k], entry) ELSE <<entry>>)
        ELSE map[k]]

\* the `for entry in &entries` loop: the BTreeMap it builds
RECURSIVE group_entries(_, _, _, _, _)
group_entries(es, cat, st, cfg, map) ==
    IF es = <<>> THEN map
    ELSE LET entry == Head(es) IN
         IF ~category_passes(entry, cat) THEN group_entries(Tail(es), cat, st, cfg, map)
         ELSE IF ~status_passes(entry, st, cfg)
         THEN group_entries(Tail(es), cat, st, cfg, map)
         ELSE group_entries(Tail(es), cat, st, cfg, push_entry(map, entry))

\* the categories sorted by their display label
LabelOrder == <<"AiModel", "Chat", "MediaCreative", "MusicAudio", "Platform",
                "Productivity", "SmartHome", "Social", "ToolsAutomation">>

\* a map that iterates its keys in label order
label_keys(map) == SelectSeq(LabelOrder, LAMBDA c : c \in DOMAIN map)

\* the key order of `for (category, cat_entries) in categories`
btree_keys(map) == SelectSeq(CategoryOrder, LAMBDA c : c \in DOMAIN map)

\* the lines one group prints
group_lines(map, c, cfg) ==
    <<CategoryLine(c)>> \o [i \in 1..Len(map[c]) |-> EntryLine(map[c][i], status_of(map[c][i], cfg))]

\* what list_integrations returns once the filters parsed: Ok(()) on both paths
list_result(map) == OkUnit

\* everything list_integrations prints
list_lines(map, cfg) ==
    IF DOMAIN map = {} THEN <<TitleLine, EmptyLine>>
    ELSE LET keys == btree_keys(map) IN
         <<TitleLine>> \o Flatten([i \in 1..Len(keys) |-> group_lines(map, keys[i], cfg)])

(***************************************************************************)
(* search_integrations.                                                    *)
(***************************************************************************)
\* `matches_query` decided by the name alone
matches_name_only(entry, query_lower) ==
    contains(to_lowercase(entry.name), query_lower)

\* `matches_query`
matches_query(entry, query_lower) ==
    \/ contains(to_lowercase(entry.name), query_lower)
    \/ contains(to_lowercase(entry.description), query_lower)

\* the closure of `.filter(...)`
search_keeps(entry, query_lower, cat, st, cfg) ==
    /\ matches_query(entry, query_lower)
    /\ category_passes(entry, cat)
    /\ status_passes(entry, st, cfg)

\* the status_fn calls the closure makes for one entry
search_calls(entry, query_lower, cat, st) ==
    IF matches_query(entry, query_lower) THEN filter_calls(entry, cat, st) ELSE <<>>

\* a key order that ignores case
name_before_ignoring_case(a, b) == str_lt(to_lowercase(a.name), to_lowercase(b.name))

\* the key order of sort_by_key(|e| e.name): a sorts strictly before b
name_before(a, b) == str_lt(a.name, b.name)

\* one entry put in its place in a sorted run, after its equals
RECURSIVE insert_by_name(_, _)
insert_by_name(sorted, e) ==
    IF sorted = <<>> THEN <<e>>
    ELSE IF name_before(e, Head(sorted)) THEN <<e>> \o sorted
    ELSE <<Head(sorted)>> \o insert_by_name(Tail(sorted), e)

\* results.sort_by_key(|e| e.name): a stable sort
RECURSIVE sort_by_name(_)
sort_by_name(es) ==
    IF es = <<>> THEN <<>>
    ELSE insert_by_name(sort_by_name(SubSeq(es, 1, Len(es) - 1)), es[Len(es)])

\* a search that reports an empty result as a failure
search_result_strict(rs) ==
    IF rs = <<>> THEN Err("No integrations found", <<>>, <<>>) ELSE OkUnit

\* what search_integrations returns once the filters parsed: Ok(()) on both paths
search_result(rs) == OkUnit

\* everything search_integrations prints
search_lines(rs, cfg) ==
    IF rs = <<>> THEN <<TitleLine, EmptyLine>>
    ELSE LET sorted == sort_by_name(rs) IN
         <<TitleLine>> \o [i \in 1..Len(sorted) |-> EntryLine(sorted[i], status_of(sorted[i], cfg))]

(***************************************************************************)
(* show_integration_info.                                                  *)
(***************************************************************************)
\* entries.iter().find(|e| e.name.to_lowercase() == name_lower), as indexes
find_matches(es, name) ==
    {i \in 1..Len(es) : to_lowercase(es[i].name) = to_lowercase(name)}

\* a lookup that accepts any name the request is part of
find_by_substring(es, name) ==
    LET hits == {i \in 1..Len(es) : contains(to_lowercase(es[i].name), to_lowercase(name))}
    IN  IF hits = {} THEN 0 ELSE CHOOSE i \in hits : \A j \in hits : i <= j

\* the index find() returns: the first match, 0 for None
find_by_name(es, name) ==
    LET hits == find_matches(es, name)
    IN  IF hits = {} THEN 0 ELSE CHOOSE i \in hits : \A j \in hits : i <= j

\* the names `match entry.name` has an arm for
HintedNames == {<<"T","e","l","e","g","r","a","m">>, <<"D","i","s","c","o","r","d">>, <<"S","l","a","c","k">>, <<"O","p","e","n","R","o","u","t","e","r">>, <<"O","l","l","a","m","a">>,
                <<"i","M","e","s","s","a","g","e">>, <<"G","i","t","H","u","b">>, <<"B","r","o","w","s","e","r">>, <<"C","r","o","n">>, <<"W","e","b","h","o","o","k","s">>}

\* a hint chosen by the status first
setup_hint_status_first(entry, status) ==
    IF status = "ComingSoon" THEN [kind |-> "generic", name |-> <<>>]
    ELSE IF entry.name \in HintedNames THEN [kind |-> "specific", name |-> entry.name]
    ELSE [kind |-> "none", name |-> <<>>]

\* the block `match entry.name { ... }` prints
setup_hint(entry, status) ==
    IF entry.name \in HintedNames THEN [kind |-> "specific", name |-> entry.name]
    ELSE IF status = "ComingSoon" THEN [kind |-> "generic", name |-> <<>>]
    ELSE [kind |-> "none", name |-> <<>>]

(***************************************************************************)
(* The state machine of handle_command.                                    *)
(***************************************************************************)
\* the calls behind printed lines: an entry's line evaluates its status first
print_calls(lines) ==
    Flatten([i \in 1..Len(lines) |->
        IF lines[i].kind = "entry" THEN <<"status_fn", "println">> ELSE <<"println">>])

NotParsed == [done |-> FALSE, category |-> Ok("None"), status |-> Ok("None")]

NoLocals ==
    /\ entries = <<>>
    /\ category_match = NoneEnum
    /\ status_match = NoneEnum
    /\ categories = <<>>
    /\ results = <<>>
    /\ output = <<>>
    /\ result = OkUnit
    /\ trace = <<>>

Init ==
    /\ catalog \in Catalogs
    /\ config \in Configs
    /\ pc = "idle"
    /\ command = NoCommand
    /\ NoLocals
    /\ input = <<>>
    /\ edits = 0
    /\ parsed = NotParsed

\* handle_command: the match on the command
HandleCommand ==
    /\ pc = "idle"
    /\ \E cmd \in IntegrationCommands :
        /\ command' = cmd
        /\ pc' = cmd.op
    /\ UNCHANGED <<catalog, config, entries, category_match, status_match, categories,
                   results, output, result, trace, parseVars>>

\* list_integrations: let entries = registry::all_integrations()
ListFetch ==
    /\ pc = "list"
    /\ entries' = all_integrations
    /\ trace' = Append(trace, "all_integrations")
    /\ pc' = "list_parse"
    /\ UNCHANGED <<catalog, config, command, category_match, status_match, categories,
                   results, output, result, parseVars>>

\* list_integrations: "Parse filters"
ListParse ==
    /\ pc = "list_parse"
    /\ LET p == ParseFilters(command) IN
        /\ trace' = trace \o p.calls
        /\ result' = p.result
        /\ category_match' = p.category
        /\ status_match' = p.status
        /\ pc' = IF p.result.ok THEN "list_group" ELSE "done"
    /\ UNCHANGED <<catalog, config, command, entries, categories, results, output,
                   parseVars>>

\* list_integrations: "Group entries by category"
ListGroup ==
    /\ pc = "list_group"
    /\ categories' = group_entries(entries, category_match, status_match, config, <<>>)
    /\ trace' = trace \o Flatten([i \in 1..Len(entries) |->
                    filter_calls(entries[i], category_match, status_match)])
    /\ pc' = "list_print"
    /\ UNCHANGED <<catalog, config, command, entries, category_match, status_match,
                   results, output, result, parseVars>>

\* list_integrations: the printing, and Ok(())
ListPrint ==
    /\ pc = "list_print"
    /\ output' = list_lines(categories, config)
    /\ trace' = trace \o print_calls(list_lines(categories, config))
    /\ result' = list_result(categories)
    /\ pc' = "done"
    /\ UNCHANGED <<catalog, config, command, entries, category_match, status_match,
                   categories, results, parseVars>>

\* search_integrations: let entries = registry::all_integrations()
SearchFetch ==
    /\ pc = "search"
    /\ entries' = all_integrations
    /\ trace' = Append(trace, "all_integrations")
    /\ pc' = "search_parse"
    /\ UNCHANGED <<catalog, config, command, category_match, status_match, categories,
                   results, output, result, parseVars>>

\* search_integrations: "Parse filters"
SearchParse ==
    /\ pc = "search_parse"
    /\ LET p == ParseFilters(command) IN
        /\ trace' = trace \o p.calls
        /\ result' = p.result
        /\ category_match' = p.category
        /\ status_match' = p.status
        /\ pc' = IF p.result.ok THEN "search_filter" ELSE "done"
    /\ UNCHANGED <<catalog, config, command, entries, categories, results, output,
                   parseVars>>

\* search_integrations: entries.iter().filter(...).collect()
SearchFilter ==
    /\ pc = "search_filter"
    /\ LET query_lower == to_lowercase(command.query) IN
        /\ results' = SelectSeq(entries, LAMBDA e :
                         search_keeps(e, query_lower, category_match, status_match, config))
        /\ trace' = trace \o Flatten([i \in 1..Len(entries) |->
                         search_calls(entries[i], query_lower, category_match, status_match)])
    /\ pc' = "search_print"
    /\ UNCHANGED <<catalog, config, command, entries, category_match, status_match,
                   categories, output, result, parseVars>>

\* search_integrations: the sort, the printing, and Ok(())
SearchPrint ==
    /\ pc = "search_print"
    /\ results' = sort_by_name(results)
    /\ output' = search_lines(results, config)
    /\ trace' = trace \o print_calls(search_lines(results, config))
    /\ result' = search_result(results)
    /\ pc' = "done"
    /\ UNCHANGED <<catalog, config, command, entries, category_match, status_match,
                   categories, parseVars>>

\* show_integration_info: let entries = registry::all_integrations()
InfoFetch ==
    /\ pc = "info"
    /\ entries' = all_integrations
    /\ trace' = Append(trace, "all_integrations")
    /\ pc' = "info_show"
    /\ UNCHANGED <<catalog, config, command, category_match, status_match, categories,
                   results, output, result, parseVars>>

\* show_integration_info: the lookup, then the bail or the printing
InfoShow ==
    /\ pc = "info_show"
    /\ LET found == find_by_name(entries, command.name) IN
        IF found = 0
        THEN /\ result' = Err("Unknown integration", command.name, <<>>)
             /\ UNCHANGED <<results, output, trace>>
        ELSE LET entry == entries[found]
                 status == status_of(entry, config)
             IN  /\ results' = <<entry>>
                 /\ output' = <<InfoLine(entry, status, setup_hint(entry, status))>>
                 /\ trace' = trace \o <<"status_fn", "println">>
                 /\ result' = OkUnit
    /\ pc' = "done"
    /\ UNCHANGED <<catalog, config, command, entries, category_match, status_match,
                   categories, parseVars>>

\* the command has returned; the next one starts from fresh locals
Return ==
    /\ pc = "done"
    /\ pc' = "idle"
    /\ command' = NoCommand
    /\ entries' = <<>>
    /\ category_match' = NoneEnum
    /\ status_match' = NoneEnum
    /\ categories' = <<>>
    /\ results' = <<>>
    /\ output' = <<>>
    /\ result' = OkUnit
    /\ trace' = <<>>
    /\ UNCHANGED <<catalog, config, parseVars>>

Next ==
    \/ HandleCommand
    \/ ListFetch \/ ListParse \/ ListGroup \/ ListPrint
    \/ SearchFetch \/ SearchParse \/ SearchFilter \/ SearchPrint
    \/ InfoFetch \/ InfoShow
    \/ Return

Spec == Init /\ [][Next]_vars

(***************************************************************************)
(* The normalizer on its own: an input is respelled, then parsed.          *)
(***************************************************************************)
\* the alias table of the filter normalizer: normalized alias, canonical value
CategoryAliasTable ==
    { <<<<"c","h","a","t">>, "Chat">>, <<<<"c","h","a","t","p","r","o","v","i","d","e","r","s">>, "Chat">>, <<<<"m","e","s","s","a","g","i","n","g">>, "Chat">>,
      <<<<"a","i">>, "AiModel">>, <<<<"a","i","m","o","d","e","l","s">>, "AiModel">>, <<<<"a","i","m","o","d","e","l">>, "AiModel">>,
      <<<<"m","o","d","e","l","s">>, "AiModel">>, <<<<"l","l","m">>, "AiModel">>, <<<<"l","l","m","s">>, "AiModel">>,
      <<<<"p","r","o","d","u","c","t","i","v","i","t","y">>, "Productivity">>, <<<<"p","r","o","d">>, "Productivity">>,
      <<<<"m","u","s","i","c">>, "MusicAudio">>, <<<<"m","u","s","i","c","a","u","d","i","o">>, "MusicAudio">>,
      <<<<"a","u","d","i","o">>, "MusicAudio">>,
      <<<<"s","m","a","r","t","h","o","m","e">>, "SmartHome">>, <<<<"h","o","m","e">>, "SmartHome">>, <<<<"i","o","t">>, "SmartHome">>,
      <<<<"t","o","o","l","s">>, "ToolsAutomation">>, <<<<"t","o","o","l","s","a","u","t","o","m","a","t","i","o","n">>, "ToolsAutomation">>,
      <<<<"a","u","t","o","m","a","t","i","o","n">>, "ToolsAutomation">>,
      <<<<"m","e","d","i","a">>, "MediaCreative">>, <<<<"m","e","d","i","a","c","r","e","a","t","i","v","e">>, "MediaCreative">>,
      <<<<"c","r","e","a","t","i","v","e">>, "MediaCreative">>,
      <<<<"s","o","c","i","a","l">>, "Social">>,
      <<<<"p","l","a","t","f","o","r","m","s">>, "Platform">>, <<<<"p","l","a","t","f","o","r","m">>, "Platform">> }

StatusAliasTable ==
    { <<<<"a","c","t","i","v","e">>, "Active">>, <<<<"e","n","a","b","l","e","d">>, "Active">>, <<<<"o","n">>, "Active">>,
      <<<<"a","v","a","i","l","a","b","l","e">>, "Available">>, <<<<"r","e","a","d","y">>, "Available">>, <<<<"o","f","f">>, "Available">>,
      <<<<"c","o","m","i","n","g","s","o","o","n">>, "ComingSoon">>, <<<<"s","o","o","n">>, "ComingSoon">>,
      <<<<"p","l","a","n","n","e","d">>, "ComingSoon">>, <<<<"t","o","d","o">>, "ComingSoon">> }

Aliases(table) == {a[1] : a \in table}

Canonical(table, alias) == (CHOOSE a \in table : a[1] = alias)[2]

\* the lowercased form of s with every '-' and '_' removed, character by character
RECURSIVE NormalForm(_)
NormalForm(s) ==
    IF s = <<>> THEN <<>>
    ELSE IF Head(s) \in {"-", "_"} THEN NormalForm(Tail(s))
    ELSE <<LowerChar(Head(s))>> \o NormalForm(Tail(s))

\* the spellings an input starts from
BaseInputs ==
    Aliases(CategoryAliasTable) \cup Aliases(StatusAliasTable)
    \cup {<<>>, <<"b","o","g","u","s">>, <<"i","n","v","a","l","i","d","-","c","a","t","e","g","o","r","y">>, <<"i","n","v","a","l","i","d","-","s","t","a","t","u","s">>}

Separators == {"-", "_"}

Suffixes == {"s", " "}

InitParse ==
    /\ catalog = <<TelegramEntry>>
    /\ config = {}
    /\ pc = "idle"
    /\ command = NoCommand
    /\ NoLocals
    /\ input \in BaseInputs
    /\ edits = 0
    /\ parsed = NotParsed

CanEdit == ~parsed.done /\ edits < MaxEdits

\* one letter of the input in upper case
Upcase ==
    /\ CanEdit
    /\ \E i \in 1..Len(input) :
        /\ UpperChar(input[i]) # input[i]
        /\ input' = [input EXCEPT ![i] = UpperChar(@)]
    /\ edits' = edits + 1
    /\ UNCHANGED <<catalog, config, queryVars, parsed>>

\* the whole input in upper case
UpcaseAll ==
    /\ CanEdit
    /\ input' = [i \in 1..Len(input) |-> UpperChar(input[i])]
    /\ input' # input
    /\ edits' = edits + 1
    /\ UNCHANGED <<catalog, config, queryVars, parsed>>

\* a hyphen or an underscore put into the input
InsertSeparator ==
    /\ CanEdit
    /\ \E i \in 0..Len(input), sep \in Separators :
        input' = SubSeq(input, 1, i) \o <<sep>> \o SubSeq(input, i + 1, Len(input))
    /\ edits' = edits + 1
    /\ UNCHANGED <<catalog, config, queryVars, parsed>>

\* the last character cut off
Truncate ==
    /\ CanEdit
    /\ input # <<>>
    /\ input' = SubSeq(input, 1, Len(input) - 1)
    /\ edits' = edits + 1
    /\ UNCHANGED <<catalog, config, queryVars, parsed>>

\* a character added at the end
AppendChar ==
    /\ CanEdit
    /\ \E c \in Suffixes : input' = Append(input, c)
    /\ edits' = edits + 1
    /\ UNCHANGED <<catalog, config, queryVars, parsed>>

\* parse_category_filter(input) and parse_status_filter(input)
ParseInput ==
    /\ ~parsed.done
    /\ parsed' = [done |-> TRUE, category |-> parse_category_filter(input),
                  status |-> parse_status_filter(input)]
    /\ UNCHANGED <<catalog, config, queryVars, input, edits>>

NextParse ==
    \/ Upcase \/ UpcaseAll \/ InsertSeparator \/ Truncate \/ AppendChar
    \/ ParseInput

SpecParse == InitParse /\ [][NextParse]_vars

(***************************************************************************)
(* What the claims speak of.                                               *)
(***************************************************************************)
Range(f) == {f[i] : i \in DOMAIN f}

\* needle is a substring of hay
IsSubstring(needle, hay) ==
    \E i \in 1..(Len(hay) + 1), j \in 0..Len(hay) : SubSeq(hay, i, j) = needle

\* a is before b in ordinal (byte) order
ByteLess(a, b) ==
    \E k \in 1..Len(b) :
        /\ k <= Len(a) + 1
        /\ \A i \in 1..(k - 1) : a[i] = b[i]
        /\ k <= Len(a) => Byte(a[k]) < Byte(b[k])

\* the filter string f (an Option) normalizes to an alias of the table
FilterValid(f, table) == f.some => NormalForm(f.v) \in Aliases(table)

\* the canonical value of a valid, present filter
FilterValue(f, table) == Canonical(table, NormalForm(f.v))

\* entry e is what the filters of cmd ask for under configuration cfg
Wanted(e, cmd, cfg) ==
    /\ cmd.category.some => e.category = FilterValue(cmd.category, CategoryAliasTable)
    /\ cmd.status.some => status_of(e, cfg) = FilterValue(cmd.status, StatusAliasTable)

FiltersValid(cmd) ==
    /\ FilterValid(cmd.category, CategoryAliasTable)
    /\ FilterValid(cmd.status, StatusAliasTable)

\* the lines of the output that show an entry
EntryLines == SelectSeq(output, LAMBDA l : l.kind = "entry")

CategoryLines == SelectSeq(output, LAMBDA l : l.kind = "category")

\* where the entry named n stands in the catalog
CatalogIndex(n) == CHOOSE i \in 1..Len(catalog) : catalog[i].name = n

IsInvalidFilter(r) == ~r.ok /\ r.err.msg \in {"Unknown category", "Unknown status"}

IsUnknownIntegration(r) == ~r.ok /\ r.err.msg = "Unknown integration"

ListDone == pc = "done" /\ command.op = "list"
SearchDone == pc = "done" /\ command.op = "search"
InfoDone == pc = "done" /\ command.op = "info"

(***************************************************************************)
(* The claims.                                                             *)
(***************************************************************************)
\* C1: every input whose lowercased form without '-' and '_' is an alias of
\* the table parses, in parse_category_filter and in parse_status_filter, to
\* exactly the canonical value the table gives that alias, whatever its case
\* and its separators.
C1_AliasesParseToCanonical ==
    parsed.done =>
        /\ NormalForm(input) \in Aliases(CategoryAliasTable) =>
              parsed.category = Ok(Canonical(CategoryAliasTable, NormalForm(input)))
        /\ NormalForm(input) \in Aliases(StatusAliasTable) =>
              parsed.status = Ok(Canonical(StatusAliasTable, NormalForm(input)))

\* "SMART_HOME", in capitals and with an underscore, was parsed to SmartHome
C1_Witness ==
    /\ parsed.done
    /\ input = <<"S","M","A","R","T","_","H","O","M","E">>
    /\ parsed.category = Ok("SmartHome")

\* C2: every input whose normalized form is no alias fails with the invalid
\* filter error, which carries the input as given and the fixed option
\* tokens, 9 for a category and 3 for a status; nothing else ever succeeds.
C2_UnknownInputsFail ==
    parsed.done =>
        /\ NormalForm(input) \notin Aliases(CategoryAliasTable) =>
              /\ IsInvalidFilter(parsed.category)
              /\ parsed.category.err.input = input
              /\ parsed.category.err.valid =
                    << <<"c","h","a","t">>, <<"a","i">>, <<"p","r","o","d","u","c","t","i","v","i","t","y">>, <<"m","u","s","i","c">>, <<"s","m","a","r","t","-","h","o","m","e">>,
                       <<"t","o","o","l","s">>, <<"m","e","d","i","a">>, <<"s","o","c","i","a","l">>, <<"p","l","a","t","f","o","r","m","s">> >>
              /\ Len(parsed.category.err.valid) = 9
        /\ NormalForm(input) \notin Aliases(StatusAliasTable) =>
              /\ IsInvalidFilter(parsed.status)
              /\ parsed.status.err.input = input
              /\ parsed.status.err.valid = << <<"a","c","t","i","v","e">>, <<"a","v","a","i","l","a","b","l","e">>, <<"c","o","m","i","n","g","-","s","o","o","n">> >>
              /\ Len(parsed.status.err.valid) = 3

\* "Cha", a cut and capitalised "chat", failed with the input kept as given
C2_Witness ==
    /\ parsed.done
    /\ input = <<"C","h","a">>
    /\ NormalForm(input) # input
    /\ IsInvalidFilter(parsed.category)
    /\ parsed.category.err.input = <<"C","h","a">>
    /\ IsInvalidFilter(parsed.status)

\* C3, as claimed: a List or Search that fails on a filter has not read the
\* catalog, evaluated no status and produced nothing.
C3_FailsBeforeCatalogIsRead ==
    (pc = "done" /\ command.op \in {"list", "search"} /\ ~result.ok) =>
        /\ "all_integrations" \notin Range(trace)
        /\ "status_fn" \notin Range(trace)
        /\ output = <<>>

\* C3, amended: a List or Search one of whose filters does not normalize
\* never examines an entry: it evaluates no status, groups, collects and
\* prints nothing, and ends in the invalid filter error, having by then
\* fetched the catalog with all_integrations() and nothing more.
C3_InvalidFilterNeverApplied ==
    (command.op \in {"list", "search"} /\ ~FiltersValid(command)) =>
        /\ "status_fn" \notin Range(trace)
        /\ "println" \notin Range(trace)
        /\ output = <<>> /\ results = <<>> /\ categories = <<>>
        /\ pc \in {"list", "list_parse", "search", "search_parse", "done"}
        /\ pc = "done" =>
              /\ IsInvalidFilter(result)
              /\ trace[1] = "all_integrations"
              /\ Range(trace) \subseteq {"all_integrations", "parse_category_filter",
                                         "parse_status_filter"}

\* a search with a good category filter and a bad status filter has failed
C3_Witness ==
    /\ SearchDone
    /\ command.category = SomeStr(<<"c","h","a","t">>)
    /\ command.status = SomeStr(<<"n","o","p","e">>)
    /\ IsInvalidFilter(result)
    /\ result.err.input = <<"n","o","p","e">>
    /\ trace = <<"all_integrations", "parse_category_filter", "parse_status_filter">>

\* C4: a List with valid filters shows a catalog entry if and only if its
\* category is the category filter's (when there is one) and its status
\* under the configuration is the status filter's (when there is one), each
\* such entry once, with that status.
C4_ListShowsExactlyTheWanted ==
    (ListDone /\ FiltersValid(command)) =>
        /\ result.ok
        /\ {l.name : l \in Range(EntryLines)} =
              {catalog[i].name : i \in {k \in 1..Len(catalog) :
                                          Wanted(catalog[k], command, config)}}
        /\ Len(EntryLines) = Cardinality({k \in 1..Len(catalog) :
                                            Wanted(catalog[k], command, config)})
        /\ \A l \in Range(EntryLines) :
              /\ l.category = catalog[CatalogIndex(l.name)].category
              /\ l.status = status_of(catalog[CatalogIndex(l.name)], config)

\* both filters given: Telegram, configured, is shown and iMessage, of the
\* same category but not active, is not
C4_Witness ==
    /\ ListDone
    /\ command.category = SomeStr(<<"c","h","a","t">>)
    /\ command.status = SomeStr(<<"a","c","t","i","v","e">>)
    /\ {catalog[i].name : i \in 1..Len(catalog)} = {<<"T","e","l","e","g","r","a","m">>, <<"i","M","e","s","s","a","g","e">>, <<"G","i","t","H","u","b">>}
    /\ {l.name : l \in Range(EntryLines)} = {<<"T","e","l","e","g","r","a","m">>}

\* C5: a List without filters shows every catalog entry exactly once, the
\* groups in the declaration order of IntegrationCategory, each under its
\* category's heading, and the entries of a group in catalog order.
C5_ListGroupsInDeclarationOrder ==
    (ListDone /\ ~command.category.some /\ ~command.status.some) =>
        /\ result.ok
        /\ Len(EntryLines) = Len(catalog)
        /\ {l.name : l \in Range(EntryLines)} = {catalog[i].name : i \in 1..Len(catalog)}
        /\ \A i, j \in 1..Len(EntryLines) :
              i < j =>
                 \/ CategoryRank(EntryLines[i].category) < CategoryRank(EntryLines[j].category)
                 \/ /\ EntryLines[i].category = EntryLines[j].category
                    /\ CatalogIndex(EntryLines[i].name) < CatalogIndex(EntryLines[j].name)
        /\ \A i, j \in 1..Len(CategoryLines) :
              i < j => CategoryRank(CategoryLines[i].category)
                          < CategoryRank(CategoryLines[j].category)
        /\ \A i \in 1..Len(output) :
              output[i].kind = "entry" =>
                 \E h \in 1..(i - 1) :
                    /\ output[h] = CategoryLine(output[i].category)
                    /\ \A k \in (h + 1)..(i - 1) : output[k].kind = "entry"

\* a catalog that has Spotify, then iMessage, then GitHub is listed as
\* iMessage (Chat), GitHub (Productivity), Spotify (MusicAudio)
C5_Witness ==
    /\ ListDone /\ ~command.category.some /\ ~command.status.some
    /\ Len(catalog) = 3
    /\ catalog[1].name = <<"S","p","o","t","i","f","y">>
    /\ catalog[2].name = <<"i","M","e","s","s","a","g","e">>
    /\ catalog[3].name = <<"G","i","t","H","u","b">>
    /\ [i \in 1..Len(EntryLines) |-> EntryLines[i].name]
          = << <<"i","M","e","s","s","a","g","e">>, <<"G","i","t","H","u","b">>, <<"S","p","o","t","i","f","y">> >>

\* C6: a Search finds a catalog entry if and only if the lowercased query is
\* a substring of its lowercased name or of its lowercased description and
\* the filters ask for it as in List; the empty query finds every entry the
\* filters ask for.
C6_SearchMatchesNameOrDescription ==
    (SearchDone /\ FiltersValid(command)) =>
        /\ result.ok
        /\ {e.name : e \in Range(results)} =
              {catalog[i].name : i \in {k \in 1..Len(catalog) :
                  /\ \/ IsSubstring(to_lowercase(command.query),
                                    to_lowercase(catalog[k].name))
                     \/ IsSubstring(to_lowercase(command.query),
                                    to_lowercase(catalog[k].description))
                  /\ Wanted(catalog[k], command, config)}}
        /\ {l.name : l \in Range(EntryLines)} = {e.name : e \in Range(results)}
        /\ command.query = <<>> =>
              {e.name : e \in Range(results)} =
                 {catalog[i].name : i \in {k \in 1..Len(catalog) :
                                             Wanted(catalog[k], command, config)}}

\* "BOT" found Telegram by its description "Bot API" alone
C6_Witness ==
    /\ SearchDone
    /\ command.query = <<"B","O","T">>
    /\ ~command.category.some /\ ~command.status.some
    /\ Len(catalog) > 1
    /\ [i \in 1..Len(results) |-> results[i].name] = << <<"T","e","l","e","g","r","a","m">> >>

\* C7: the entries a Search shows are in ascending ordinal order of their
\* names, whatever the query and the filters; with the empty query and no
\* filters they are all the catalog entries, each once.
C7_SearchSortedByName ==
    SearchDone =>
        /\ \A i, j \in 1..Len(EntryLines) :
              i < j => ByteLess(EntryLines[i].name, EntryLines[j].name)
        /\ [i \in 1..Len(EntryLines) |-> EntryLines[i].name]
              = [i \in 1..Len(results) |-> results[i].name]
        /\ (command.query = <<>> /\ ~command.category.some /\ ~command.status.some) =>
              /\ Len(EntryLines) = Len(catalog)
              /\ {l.name : l \in Range(EntryLines)}
                    = {catalog[i].name : i \in 1..Len(catalog)}

\* the catalog iMessage, Telegram, GitHub is shown as GitHub, Telegram,
\* iMessage: capitals first, the two Chat entries apart
C7_Witness ==
    /\ SearchDone
    /\ command.query = <<>> /\ ~command.category.some /\ ~command.status.some
    /\ [i \in 1..Len(catalog) |-> catalog[i].name]
          = << <<"i","M","e","s","s","a","g","e">>, <<"T","e","l","e","g","r","a","m">>, <<"G","i","t","H","u","b">> >>
    /\ [i \in 1..Len(EntryLines) |-> EntryLines[i].name]
          = << <<"G","i","t","H","u","b">>, <<"T","e","l","e","g","r","a","m">>, <<"i","M","e","s","s","a","g","e">> >>

\* C8: Info resolves an entry if and only if the lowercased name of some
\* catalog entry equals the lowercased request, and then it shows one entry,
\* the first such; otherwise it fails with the unknown integration error
\* naming the request as given.
C8_InfoIsExactAndCaseInsensitive ==
    InfoDone =>
        LET hits == {i \in 1..Len(catalog) :
                        to_lowercase(catalog[i].name) = to_lowercase(command.name)}
        IN  /\ result.ok <=> hits # {}
            /\ result.ok =>
                  /\ Len(output) = 1
                  /\ output[1].kind = "info"
                  /\ to_lowercase(output[1].name) = to_lowercase(command.name)
                  /\ \A i \in hits : CatalogIndex(output[1].name) <= i
            /\ ~result.ok =>
                  /\ IsUnknownIntegration(result)
                  /\ result.err.input = command.name
                  /\ output = <<>>

\* "tele" failed although the catalog has Telegram
C8_Witness ==
    /\ InfoDone
    /\ command.name = <<"t","e","l","e">>
    /\ \E i \in 1..Len(catalog) : catalog[i].name = <<"T","e","l","e","g","r","a","m">>
    /\ IsUnknownIntegration(result)
    /\ result.err.input = <<"t","e","l","e">>

\* C9: a List or Search whose filters are valid or absent succeeds, also
\* when it shows no entry; the only failures are the invalid filter error of
\* List and Search and the unknown integration error of Info.
C9_EmptyResultIsSuccess ==
    pc = "done" =>
        /\ (command.op \in {"list", "search"} /\ FiltersValid(command)) => result.ok
        /\ ~result.ok =>
              \/ command.op \in {"list", "search"} /\ IsInvalidFilter(result)
              \/ command.op = "info" /\ IsUnknownIntegration(result)

\* a search for "xyz" found nothing and succeeded
C9_Witness ==
    /\ SearchDone
    /\ command.query = <<"x","y","z">>
    /\ results = <<>>
    /\ EntryLines = <<>>
    /\ output # <<>>
    /\ result = OkUnit

\* C10: a successful Info shows the hint of the entry's name when the name
\* is one of the ten with a hint of their own, whatever the status; for any
\* other entry it shows the generic hint if and only if the status is
\* ComingSoon, and otherwise none.
C10_HintByNameThenStatus ==
    (InfoDone /\ result.ok) =>
        LET l == output[1] IN
        /\ l.status = status_of(catalog[CatalogIndex(l.name)], config)
        /\ l.name \in {<<"T","e","l","e","g","r","a","m">>, <<"D","i","s","c","o","r","d">>, <<"S","l","a","c","k">>, <<"O","p","e","n","R","o","u","t","e","r">>, <<"O","l","l","a","m","a">>,
                       <<"i","M","e","s","s","a","g","e">>, <<"G","i","t","H","u","b">>, <<"B","r","o","w","s","e","r">>, <<"C","r","o","n">>, <<"W","e","b","h","o","o","k","s">>} =>
              l.hint = [kind |-> "specific", name |-> l.name]
        /\ l.name \notin {<<"T","e","l","e","g","r","a","m">>, <<"D","i","s","c","o","r","d">>, <<"S","l","a","c","k">>, <<"O","p","e","n","R","o","u","t","e","r">>, <<"O","l","l","a","m","a">>,
                          <<"i","M","e","s","s","a","g","e">>, <<"G","i","t","H","u","b">>, <<"B","r","o","w","s","e","r">>, <<"C","r","o","n">>, <<"W","e","b","h","o","o","k","s">>} =>
              /\ l.hint.kind = "generic" <=> l.status = "ComingSoon"
              /\ l.hint.kind \in {"generic", "none"}

\* GitHub, coming soon, was shown with the hint of its own
C10_Witness ==
    /\ InfoDone /\ result.ok
    /\ output[1].name = <<"G","i","t","H","u","b">>
    /\ output[1].status = "ComingSoon"
    /\ output[1].hint = [kind |-> "specific", name |-> <<"G","i","t","H","u","b">>]

\* C11: every option token an invalid filter error displays is accepted by
\* the parser that displays it: the 9 category tokens parse to 9 pairwise
\* distinct categories, which are all of IntegrationCategory, and the 3
\* status tokens parse to the 3 values of IntegrationStatus.
C11_DisplayedOptionsParse ==
    parsed.done =>
        /\ ~parsed.category.ok =>
              LET v == parsed.category.err.valid
                  r == [i \in 1..Len(v) |-> parse_category_filter(v[i])]
                  values == {r[i].value : i \in 1..Len(v)}
              IN  /\ Len(v) = 9
                  /\ \A i \in 1..Len(v) : r[i].ok
                  /\ values = {"Chat", "AiModel", "Productivity", "MusicAudio",
                               "SmartHome", "ToolsAutomation", "MediaCreative",
                               "Social", "Platform"}
                  /\ Cardinality(values) = Len(v)
        /\ ~parsed.status.ok =>
              LET v == parsed.status.err.valid
                  r == [i \in 1..Len(v) |-> parse_status_filter(v[i])]
                  values == {r[i].value : i \in 1..Len(v)}
              IN  /\ Len(v) = 3
                  /\ \A i \in 1..Len(v) : r[i].ok
                  /\ values = {"Available", "Active", "ComingSoon"}
                  /\ Cardinality(values) = Len(v)

\* "bogus" failed in both parsers, and the hyphenated tokens their errors
\* display, "smart-home" and "coming-soon", parse to SmartHome and ComingSoon
C11_Witness ==
    /\ parsed.done
    /\ input = <<"b","o","g","u","s">>
    /\ ~parsed.category.ok /\ ~parsed.status.ok
    /\ parse_category_filter(parsed.category.err.valid[5]) = Ok("SmartHome")
    /\ parse_status_filter(parsed.status.err.valid[3]) = Ok("ComingSoon")

=============================================================================
